---- MODULE Spec2Model ----
(***************************************************************************)
(* Model of sentiment.py: a Streamlit script that generates themed review  *)
(* sentences, scores them with a lexicon and aggregates the labels.        *)
(*                                                                         *)
(* A Python string is modelled as a sequence of pieces (words, " ", ".",   *)
(* ","), so that concatenation, strip() and lower() act on it as they do   *)
(* on the characters.  A compound score is an integer in units of 0.0001   *)
(* (the lexicon rounds the compound to four decimals).                     *)
(***************************************************************************)
EXTENDS Integers, Sequences, FiniteSets, TLC

VARIABLES
    session_state,  \* st.session_state: key -> object
    theme,          \* value of the theme selectbox
    num_reviews,    \* value of the slider
    sia,            \* the loaded lexicon: text -> compound
    pc,             \* position of the script run
    event,          \* the widget interaction that triggered the current run
    df,             \* the script's local df after line 164 (None before)
    metrics,        \* total / pos / neg / neu shown by lines 166-176 (None before)
    had_batch,      \* history: "df_generated" was stored when the current run started
    call            \* the helper call made by the function harness

vars == <<session_state, theme, num_reviews, sia, pc, event, df, metrics, had_batch, call>>

----------------------------------------------------------------------------
(* Bounds of the model *)

\* random.choice over subjects, adjectives and contexts is limited to the
\* first MaxChoice entries of the pool
MaxChoice == 2
\* the slider is moved inside SliderMin .. MaxReviews
MaxReviews == 6

Min(a, b) == IF a < b THEN a ELSE b
Range(s) == {s[i] : i \in DOMAIN s}

----------------------------------------------------------------------------
(* Widgets *)

Themes == {"Weather", "Service", "Feedback", "Reviews"}
SliderMin == 5
SliderMax == 20
SliderDefault == 5
SliderValues == SliderMin .. Min(SliderMax, MaxReviews)

----------------------------------------------------------------------------
(* Vocabulary pools *)

subjects == << <<"I">>, <<"We">>, <<"My", " ", "friend">>, <<"The", " ", "team">>,
               <<"Customer", " ", "service">>, <<"The", " ", "product">>,
               <<"The", " ", "staff">>, <<"Our", " ", "experience">> >>
verbs_positive == << <<"loved">>, <<"enjoyed">>, <<"appreciated">>, <<"valued">>,
                     <<"adored">>, <<"found", " ", "excellent">> >>
verbs_negative == << <<"hated">>, <<"disliked">>,
                     <<"was", " ", "disappointed", " ", "by">>,
                     <<"was", " ", "frustrated", " ", "by">>,
                     <<"couldn't", " ", "enjoy">> >>
verbs_neutral == << <<"experienced">>, <<"noticed">>, <<"found">>, <<"tried">>,
                    <<"observed">>, <<"encountered">> >>
objects_weather == << <<"the", " ", "sunny", " ", "day">>, <<"the", " ", "rain">>,
                      <<"stormy", " ", "conditions">>,
                      <<"the", " ", "cold", " ", "weather">>,
                      <<"the", " ", "heatwave">> >>
objects_service == << <<"the", " ", "staff">>, <<"the", " ", "support", " ", "team">>,
                      <<"the", " ", "customer", " ", "service">>,
                      <<"the", " ", "assistance">>, <<"the", " ", "guidance">> >>
objects_feedback == << <<"the", " ", "process">>,
                       <<"the", " ", "feedback", " ", "system">>,
                       <<"the", " ", "form">>, <<"the", " ", "survey">>,
                       <<"the", " ", "response">> >>
objects_reviews == << <<"the", " ", "review", " ", "process">>,
                      <<"the", " ", "opinions", " ", "shared">>,
                      <<"the", " ", "ratings">>, <<"the", " ", "comments">>,
                      <<"the", " ", "evaluations">> >>
adjectives == << <<"amazing">>, <<"terrible">>, <<"okay">>, <<"fantastic">>,
                 <<"poor">>, <<"average">>, <<"excellent">>, <<"mediocre">>,
                 <<"satisfying">>, <<"disappointing">> >>
contexts == << <<"during", " ", "a", " ", "rainy", " ", "afternoon">>,
               <<"on", " ", "a", " ", "sunny", " ", "morning">>,
               <<"after", " ", "a", " ", "long", " ", "wait">>,
               <<"before", " ", "the", " ", "storm">>,
               <<"while", " ", "deciding">>,
               <<"after", " ", "reviewing", " ", "all", " ", "options">> >>

----------------------------------------------------------------------------
(* String helpers *)

\* str.lower(), piece by piece: the only pieces with an upper-case letter
\* are the capitalised first words of the subjects
LowerPiece(p) ==
    CASE p = "I" -> "i"
      [] p = "We" -> "we"
      [] p = "My" -> "my"
      [] p = "The" -> "the"
      [] p = "Customer" -> "customer"
      [] p = "Our" -> "our"
      [] OTHER -> p

Lower(s) == [i \in DOMAIN s |-> LowerPiece(s[i])]

IsSpace(p) == p = " "

RECURSIVE LStrip(_)
LStrip(s) == IF s # <<>> /\ IsSpace(Head(s)) THEN LStrip(Tail(s)) ELSE s

RECURSIVE RStrip(_)
RStrip(s) ==
    IF s # <<>> /\ IsSpace(s[Len(s)]) THEN RStrip(SubSeq(s, 1, Len(s) - 1)) ELSE s

\* str.strip(): leading and trailing whitespace removed
Strip(s) == LStrip(RStrip(s))

----------------------------------------------------------------------------
(* generate_fluent_review *)

\* the verb pool each branch of the if/elif chain draws from
VerbPoolWeatherOnlyPositive(theme_name) ==
    IF theme_name = "Weather" THEN verbs_positive
    ELSE verbs_positive \o verbs_negative \o verbs_neutral

VerbPool(theme_name) ==
    IF theme_name = "Weather" THEN verbs_positive \o verbs_negative \o verbs_neutral
    ELSE IF theme_name = "Service" THEN verbs_positive \o verbs_negative \o verbs_neutral
    ELSE IF theme_name = "Feedback" THEN verbs_positive \o verbs_negative \o verbs_neutral
    ELSE verbs_positive \o verbs_negative \o verbs_neutral

\* the object pool each branch of the if/elif chain draws from
ObjectPoolElseFeedback(theme_name) ==
    IF theme_name = "Weather" THEN objects_weather
    ELSE IF theme_name = "Service" THEN objects_service
    ELSE objects_feedback

ObjectPool(theme_name) ==
    IF theme_name = "Weather" THEN objects_weather
    ELSE IF theme_name = "Service" THEN objects_service
    ELSE IF theme_name = "Feedback" THEN objects_feedback
    ELSE objects_reviews

\* the five f-strings of the templates list, by position
Templates(subj, verb, obj, adj, context) ==
    [k \in 1 .. 5 |->
        CASE k = 1 ->
               subj \o <<" ">> \o verb \o <<" ">> \o obj
                    \o <<".", " ", "It", " ", "was", " ">> \o adj \o <<" ">>
                    \o context \o <<".">>
          [] k = 2 ->
               Strip(<<"Overall", ",", " ">> \o Lower(subj) \o <<" ">> \o verb
                    \o <<" ">> \o obj \o <<" ", "and", " ", "found", " ", "it", " ">>
                    \o adj \o <<".", " ">> \o context)
          [] k = 3 ->
               subj \o <<" ", "felt", " ", "that", " ">> \o obj \o <<" ", "was", " ">>
                    \o adj \o <<".", " ">> \o context
          [] k = 4 ->
               <<"In", " ", "my", " ", "opinion", ",", " ">> \o obj
                    \o <<" ", "was", " ">> \o adj \o <<" ">> \o context \o <<".", " ">>
                    \o subj \o <<" ">> \o verb \o <<" ", "it", " ", "thoroughly", ".">>
          [] k = 5 ->
               subj \o <<" ", "would", " ", "say", " ", "the", " ">> \o obj
                    \o <<" ", "was", " ">> \o adj \o <<".", " ">> \o context \o <<".">>]

\* The outcomes of the random calls of one generate_fluent_review call:
\* an index per random.choice, and coin = (random.random() < 0.6).
\* context = 0 when the coin fails (random.choice(contexts) is not evaluated).
Choices(pool) == 1 .. Min(Len(pool), MaxChoice)

Draws(theme_name) ==
    [subj : Choices(subjects), verb : DOMAIN VerbPool(theme_name),
     obj : DOMAIN ObjectPool(theme_name), adj : Choices(adjectives),
     coin : {TRUE}, context : Choices(contexts), template : 1 .. 5]
    \cup
    [subj : Choices(subjects), verb : DOMAIN VerbPool(theme_name),
     obj : DOMAIN ObjectPool(theme_name), adj : Choices(adjectives),
     coin : {FALSE}, context : {0}, template : 1 .. 5]

\* generate_fluent_review(theme_name) under the random outcomes r: its
\* locals and the sentence it returns
generate_fluent_review(theme_name, r) ==
    LET subj == subjects[r.subj]
        verb == VerbPool(theme_name)[r.verb]
        obj == ObjectPool(theme_name)[r.obj]
        adj == adjectives[r.adj]
        context == IF r.coin THEN contexts[r.context] ELSE <<>>
        templates == Templates(subj, verb, obj, adj, context)
    IN  [subj |-> subj, verb |-> verb, obj |-> obj, adj |-> adj,
         context |-> context, sentence |-> templates[r.template]]

----------------------------------------------------------------------------
(* The review table (a pandas DataFrame): its row count and its columns in *)
(* order, each a name with one value per row                               *)

None == [kind |-> "None"]

\* pd.DataFrame({"review": reviews})
DataFrame(reviews) ==
    [index |-> Len(reviews),
     columns |-> << [name |-> "review", values |-> reviews] >>]

ColumnNames(frame) == [i \in DOMAIN frame.columns |-> frame.columns[i].name]

HasColumn(frame, name) == \E i \in DOMAIN frame.columns : frame.columns[i].name = name

\* frame[name]
Column(frame, name) ==
    frame.columns[CHOOSE i \in DOMAIN frame.columns : frame.columns[i].name = name].values

\* frame[name] = values, in place: an existing column is overwritten where
\* it stands, a new one is appended
SetColumnAlwaysAppend(frame, name, values) ==
    [frame EXCEPT !.columns = Append(@, [name |-> name, values |-> values])]

SetColumn(frame, name, values) ==
    IF HasColumn(frame, name)
    THEN [frame EXCEPT !.columns =
              [i \in DOMAIN @ |-> IF @[i].name = name
                                  THEN [name |-> name, values |-> values]
                                  ELSE @[i]]]
    ELSE [frame EXCEPT !.columns = Append(@, [name |-> name, values |-> values])]

\* frame[cols]: a new table with the named columns in the order of cols
SelectColumns(frame, cols) ==
    [index |-> frame.index,
     columns |-> [j \in DOMAIN cols |->
                     [name |-> cols[j], values |-> Column(frame, cols[j])]]]

\* len(frame)
LenFrame(frame) == frame.index

----------------------------------------------------------------------------
(* Sentiment scorer *)

\* the thresholds 0.05 and -0.05 in units of 0.0001
PositiveThreshold == 500
NegativeThreshold == -500

\* every compound the lexicon can return: -1.0 .. 1.0 in steps of 0.0001
CompoundRange == -10000 .. 10000

\* sia.polarity_scores(text)["compound"]: a fixed function of the text
polarity_compound(lexicon, text) == lexicon[text]

analyze_sentiment_strict(lexicon, text) ==
    LET compound == polarity_compound(lexicon, text)
    IN  IF compound > PositiveThreshold THEN <<"Positive", compound>>
        ELSE IF compound < NegativeThreshold THEN <<"Negative", compound>>
        ELSE <<"Neutral", compound>>

analyze_sentiment(lexicon, text) ==
    LET compound == polarity_compound(lexicon, text)
    IN  IF compound >= PositiveThreshold THEN <<"Positive", compound>>
        ELSE IF compound <= NegativeThreshold THEN <<"Negative", compound>>
        ELSE <<"Neutral", compound>>

\* df[["sentiment","confidence"]] = df["review"].apply(...): one result per
\* row, in row order, written to the two columns
AssignSentiment(frame, lexicon) ==
    LET review == Column(frame, "review")
        result == [i \in 1 .. LenFrame(frame) |-> analyze_sentiment(lexicon, review[i])]
        labels == [i \in 1 .. LenFrame(frame) |-> result[i][1]]
        scores == [i \in 1 .. LenFrame(frame) |-> result[i][2]]
    IN  SetColumn(SetColumn(frame, "sentiment", labels), "confidence", scores)

IsSentimentColumn(c) == c \in {"sentiment", "confidence"}
NotSentimentColumn(c) == ~IsSentimentColumn(c)

\* cols = [c for c in df.columns if c not in [...]] + [...]; df = df[cols]
ReorderColumns(frame) ==
    SelectColumns(frame,
        SelectSeq(ColumnNames(frame), NotSentimentColumn) \o <<"sentiment", "confidence">>)

\* (df["sentiment"] == label).sum()
CountLabelNeutralAsNegative(frame, label) ==
    Cardinality({i \in 1 .. LenFrame(frame) :
                    \/ Column(frame, "sentiment")[i] = label
                    \/ label = "Negative" /\ Column(frame, "sentiment")[i] = "Neutral"})

CountLabel(frame, label) ==
    Cardinality({i \in 1 .. LenFrame(frame) : Column(frame, "sentiment")[i] = label})

\* total, pos, neg, neu of lines 166-169
Aggregate(frame) ==
    [total |-> LenFrame(frame),
     pos |-> CountLabel(frame, "Positive"),
     neg |-> CountLabel(frame, "Negative"),
     neu |-> CountLabel(frame, "Neutral")]

----------------------------------------------------------------------------
(* Inputs of the session *)

\* the random outcomes a session's generate_fluent_review calls may have
SessionDraws(theme_name) ==
    {r \in { [subj |-> 1, verb |-> 1, obj |-> 1, adj |-> 1, coin |-> TRUE,
              context |-> 1, template |-> 1],
             [subj |-> 2, verb |-> 6, obj |-> 2, adj |-> 2, coin |-> FALSE,
              context |-> 0, template |-> 3] } : r \in Draws(theme_name)}

SessionTexts ==
    UNION {{generate_fluent_review(t, r).sentence : r \in SessionDraws(t)} : t \in Themes}

\* compounds on both sides of, and on, the two thresholds
CompoundSamples == <<-10000, -500, -499, 0, 499, 500, 10000>>

\* the lexicons a session may have loaded: each a fixed function of the text
Lexicons ==
    {[t \in SessionTexts |->
        CompoundSamples[((Len(t) + k) % Len(CompoundSamples)) + 1]] : k \in {0, 3}}

NoLexicon == [t \in {} |-> 0]

----------------------------------------------------------------------------
(* The script: one run per widget interaction *)

EmptySession == [k \in {} |-> None]

NoCall == [fn |-> "none"]

\* [generate_fluent_review(theme) for _ in range(num_reviews)]
GenerateReviewsOneShort(theme_name, n, picks) ==
    [i \in 1 .. n - 1 |-> generate_fluent_review(theme_name, picks[i]).sentence]

GenerateReviews(theme_name, n, picks) ==
    [i \in 1 .. n |-> generate_fluent_review(theme_name, picks[i]).sentence]

\* st.session_state.df_generated = df_generated
StoreBatchKeepColumns(state, reviews) ==
    IF "df_generated" \in DOMAIN state
    THEN [state EXCEPT !["df_generated"] =
              [SetColumn(@, "review", reviews) EXCEPT !.index = Len(reviews)]]
    ELSE ("df_generated" :> DataFrame(reviews)) @@ state

StoreBatch(state, reviews) == ("df_generated" :> DataFrame(reviews)) @@ state

\* del st.session_state[key] for every key; st.session_state.clear()
ClearSessionKeepBatch(state) == state

ClearSession(state) == EmptySession

Init ==
    /\ session_state = EmptySession
    /\ theme = "Weather"
    /\ num_reviews = SliderDefault
    /\ sia \in Lexicons
    /\ pc = "idle"
    /\ event = "load"
    /\ df = None
    /\ metrics = None
    /\ had_batch = FALSE
    /\ call = NoCall

\* a widget interaction starts a run of the script from the top
StartRun(e) ==
    /\ pc = "idle"
    /\ pc' = "L89"
    /\ event' = e
    /\ df' = None
    /\ metrics' = None
    /\ had_batch' = ("df_generated" \in DOMAIN session_state)
    /\ UNCHANGED <<session_state, sia, call>>

SelectTheme == \E t \in Themes \ {theme} :
    /\ StartRun("rerun")
    /\ theme' = t
    /\ UNCHANGED num_reviews

MoveSlider == \E n \in SliderValues \ {num_reviews} :
    /\ StartRun("rerun")
    /\ num_reviews' = n
    /\ UNCHANGED theme

Rerun == StartRun("rerun") /\ UNCHANGED <<theme, num_reviews>>

ClickRefresh == StartRun("reset") /\ UNCHANGED <<theme, num_reviews>>

ClickGenerate == StartRun("generate") /\ UNCHANGED <<theme, num_reviews>>

\* lines 89-93
RefreshBlock ==
    /\ pc = "L89"
    /\ pc' = "L139"
    /\ session_state' = IF event = "reset" THEN ClearSession(session_state)
                        ELSE session_state
    /\ UNCHANGED <<theme, num_reviews, sia, event, df, metrics, had_batch, call>>

\* lines 139-144
GenerateBlock ==
    /\ pc = "L139"
    /\ pc' = "L149"
    /\ IF event = "generate"
       THEN \E picks \in [1 .. num_reviews -> SessionDraws(theme)] :
                session_state' =
                    StoreBatch(session_state, GenerateReviews(theme, num_reviews, picks))
       ELSE UNCHANGED session_state
    /\ UNCHANGED <<theme, num_reviews, sia, event, df, metrics, had_batch, call>>

\* lines 149-199; df is the stored object itself until line 164 rebinds it,
\* so the column assignment of line 162 writes into the stored table
AnalysisBlock ==
    /\ pc = "L149"
    /\ pc' = "idle"
    /\ IF "df_generated" \in DOMAIN session_state
       THEN LET stored == AssignSentiment(session_state["df_generated"], sia)
                local == ReorderColumns(stored)
            IN  /\ session_state' = [session_state EXCEPT !["df_generated"] = stored]
                /\ df' = local
                /\ metrics' = Aggregate(local)
       ELSE UNCHANGED <<session_state, df, metrics>>
    /\ UNCHANGED <<theme, num_reviews, sia, event, had_batch, call>>

Next ==
    \/ SelectTheme
    \/ MoveSlider
    \/ Rerun
    \/ ClickRefresh
    \/ ClickGenerate
    \/ RefreshBlock
    \/ GenerateBlock
    \/ AnalysisBlock

Spec == Init /\ [][Next]_vars

----------------------------------------------------------------------------
(* The helpers on their own: one call per behaviour, its inputs drawn from *)
(* bounded sets                                                            *)

\* theme values passed to generate_fluent_review: the four of the selectbox
\* and one that is none of them
ThemeInputs == Themes \cup {"Other"}

\* counts passed to the list comprehension of line 140, the slider's bounds
\* set aside
CountInputs == -1 .. Min(SliderMax, MaxReviews)

\* texts passed to analyze_sentiment
TextInputs == {<<>>, <<"I", " ", "loved", " ", "the", " ", "staff", ".">>}

\* what lines 139-143 raise: random.choice raises IndexError on an empty
\* pool; nothing else in the handler raises and nothing inspects the count
GenerateOutcome(theme_name, n) ==
    IF n > 0 /\ (subjects = <<>> \/ VerbPool(theme_name) = <<>>
                 \/ ObjectPool(theme_name) = <<>> \/ adjectives = <<>>)
    THEN "IndexError"
    ELSE "ok"

InitFn ==
    /\ session_state = EmptySession
    /\ theme = "Weather"
    /\ num_reviews = SliderDefault
    /\ sia = NoLexicon
    /\ pc = "idle"
    /\ event = "load"
    /\ df = None
    /\ metrics = None
    /\ had_batch = FALSE
    /\ call = NoCall

CallGenerateFluentReview ==
    /\ call = NoCall
    /\ \E t \in ThemeInputs : \E r \in Draws(t) :
           call' = [fn |-> "generate_fluent_review", theme |-> t, r |-> r,
                    out |-> generate_fluent_review(t, r)]
    /\ UNCHANGED <<session_state, theme, num_reviews, sia, pc, event, df, metrics,
                   had_batch>>

CallAnalyzeSentiment ==
    /\ call = NoCall
    /\ \E text \in TextInputs : \E c \in CompoundRange :
           call' = [fn |-> "analyze_sentiment", text |-> text, compound |-> c,
                    out |-> analyze_sentiment([t \in {text} |-> c], text)]
    /\ UNCHANGED <<session_state, theme, num_reviews, sia, pc, event, df, metrics,
                   had_batch>>

CallGenerate ==
    /\ call = NoCall
    /\ \E t \in Themes : \E n \in CountInputs :
       \E picks \in [1 .. n -> SessionDraws(t)] :
           call' = [fn |-> "generate", theme |-> t, count |-> n,
                    outcome |-> GenerateOutcome(t, n),
                    state |-> IF GenerateOutcome(t, n) = "ok"
                              THEN StoreBatch(EmptySession, GenerateReviews(t, n, picks))
                              ELSE EmptySession]
    /\ UNCHANGED <<session_state, theme, num_reviews, sia, pc, event, df, metrics,
                   had_batch>>

NextFn ==
    \/ CallGenerateFluentReview
    \/ CallAnalyzeSentiment
    \/ CallGenerate

SpecFn == InitFn /\ [][NextFn]_vars

----------------------------------------------------------------------------
(* Properties *)

HasBatch == "df_generated" \in DOMAIN session_state
Batch == session_state["df_generated"]
AnalysedColumns == <<"review", "sentiment", "confidence">>

\* the label the fixed thresholds give a compound c (0.05 = 500, -0.05 = -500)
ThresholdLabel(c) ==
    IF c >= 500 THEN "Positive" ELSE IF c <= -500 THEN "Negative" ELSE "Neutral"

IsReviewCall == call.fn = "generate_fluent_review"

\* C1: for every compound c in [-1.0, 1.0] the lexicon returns,
\* analyze_sentiment labels the text Positive iff c >= 0.05, Negative iff
\* c <= -0.05 and Neutral otherwise, and returns c itself as the score.
C1_ThresholdLabels ==
    call.fn = "analyze_sentiment" =>
        /\ call.compound \in CompoundRange
        /\ (call.out[1] = "Positive") <=> (call.compound >= 500)
        /\ (call.out[1] = "Negative") <=> (call.compound <= -500)
        /\ (call.out[1] = "Neutral") <=> (-500 < call.compound /\ call.compound < 500)
        /\ call.out[2] = call.compound

\* a compound of exactly 0.05 was labelled
C1_Witness ==
    /\ call.fn = "analyze_sentiment"
    /\ call.compound = 500
    /\ call.out = <<"Positive", 500>>

\* C2: after a generation with requested count n followed by the analysis,
\* the Batch holds exactly n records in generation order, each with exactly
\* one label and one score: the store of the generation holds the n
\* sentences alone, and the analysis keeps every sentence in its place and
\* pairs row i with the label and the score of sentence i.
C2_BatchComplete ==
    /\ [](pc = "L149" /\ event = "generate" =>
            /\ HasBatch
            /\ LenFrame(Batch) = num_reviews
            /\ ColumnNames(Batch) = <<"review">>
            /\ Len(Column(Batch, "review")) = num_reviews
            /\ \A i \in 1 .. num_reviews : Column(Batch, "review")[i] \in SessionTexts)
    /\ [](pc = "idle" /\ event = "generate" =>
            /\ HasBatch
            /\ LenFrame(Batch) = num_reviews
            /\ ColumnNames(Batch) = AnalysedColumns
            /\ \A c \in Range(AnalysedColumns) : Len(Column(Batch, c)) = num_reviews
            /\ \A i \in 1 .. num_reviews :
                 /\ Column(Batch, "confidence")[i] = sia[Column(Batch, "review")[i]]
                 /\ Column(Batch, "sentiment")[i] =
                        ThresholdLabel(sia[Column(Batch, "review")[i]])
            /\ df = Batch)
    /\ [][pc = "L149" /\ HasBatch =>
            Column(Batch, "review")' = Column(Batch, "review")]_vars

\* a batch of more than the minimum count, with two different sentences
\* and two different labels, was generated and analysed
C2_Witness ==
    /\ pc = "idle" /\ event = "generate" /\ HasBatch
    /\ num_reviews > SliderMin
    /\ LenFrame(Batch) = num_reviews
    /\ Column(Batch, "review")[1] # Column(Batch, "review")[2]
    /\ Column(Batch, "sentiment")[1] # Column(Batch, "sentiment")[2]

\* C5: for every Batch the analysis processes, pos + neu + neg = total =
\* the number of records of the Batch.
C5_CountsAddUp ==
    metrics # None =>
        /\ HasBatch
        /\ metrics.pos + metrics.neu + metrics.neg = metrics.total
        /\ metrics.total = LenFrame(Batch)
        /\ metrics.total = Len(Column(Batch, "review"))
        /\ metrics.total = Len(Column(df, "sentiment"))

\* a batch with records under two labels was aggregated
C5_Witness ==
    /\ metrics # None
    /\ metrics.neg > 0
    /\ metrics.neu > 0
    /\ metrics.total > SliderMin

\* C8: a reset clears the Batch: in the run in which it fires the session
\* holds no Batch afterwards and nothing is scored, aggregated or shown, and
\* nothing is in later runs until a generation creates a new Batch.
C8_ResetClears ==
    /\ [](event = "reset" /\ pc # "L89" => ~HasBatch /\ metrics = None /\ df = None)
    /\ [](~HasBatch /\ pc \in {"idle", "L89", "L139"} => metrics = None /\ df = None)
    /\ [][~HasBatch /\ HasBatch' => pc = "L139" /\ event = "generate"]_vars
    /\ [][~HasBatch /\ pc = "L149" => metrics' = None /\ df' = None]_vars

\* a run that reset a session holding a Batch has ended
C8_Witness ==
    /\ event = "reset" /\ pc = "idle" /\ had_batch
    /\ ~HasBatch /\ metrics = None


EndsWith(s, suffix) ==
    /\ Len(s) >= Len(suffix)
    /\ SubSeq(s, Len(s) - Len(suffix) + 1, Len(s)) = suffix

\* C3: with the context clause omitted, the sentence generate_fluent_review
\* returns is non-empty, does not end in a space, has no space right before
\* its final period and does not end in a doubled period (". ." or "..").
C3_NoMalformedEnding ==
    IsReviewCall /\ call.out.context = <<>> =>
        /\ call.out.sentence # <<>>
        /\ ~EndsWith(call.out.sentence, <<" ">>)
        /\ ~EndsWith(call.out.sentence, <<" ", ".">>)
        /\ ~EndsWith(call.out.sentence, <<".", " ", ".">>)
        /\ ~EndsWith(call.out.sentence, <<".", ".">>)

OwnObjects ==
    [t \in Themes |->
        CASE t = "Weather" -> objects_weather
          [] t = "Service" -> objects_service
          [] t = "Feedback" -> objects_feedback
          [] t = "Reviews" -> objects_reviews]

\* the sentences generate_fluent_review can return for Reviews, and for a
\* theme that is none of the four
ReviewsSentences ==
    {generate_fluent_review("Reviews", r).sentence : r \in Draws("Reviews")}
OtherSentences ==
    {generate_fluent_review("Other", r).sentence : r \in Draws("Other")}

\* C6: generate_fluent_review with a theme outside the four does not fail
\* and behaves as for Reviews: the object comes from the Reviews pool, the
\* same random outcomes give the same sentence, and the sentences it can
\* produce are those producible for Reviews.
C6_UnknownThemeIsReviews ==
    IsReviewCall /\ call.theme \notin Themes =>
        /\ call.out.obj \in Range(objects_reviews)
        /\ call.r \in Draws("Reviews")
        /\ call.out = generate_fluent_review("Reviews", call.r)
        /\ call.out.sentence \in ReviewsSentences
        /\ OtherSentences = ReviewsSentences

\* a sentence was generated for a theme that is none of the four
C6_Witness ==
    /\ IsReviewCall
    /\ call.theme = "Other"
    /\ call.out.obj = objects_reviews[5]
    /\ call.out.sentence # <<>>

\* C9: the theme determines only the object pool: for each of the four
\* themes the verb comes from the union of the three verb pools, subject,
\* adjective and context from the common pools, and the object from the
\* theme's own pool and from no other theme's.
C9_ThemeSelectsObjectsOnly ==
    /\ \A t \in Themes : VerbPool(t) = verbs_positive \o verbs_negative \o verbs_neutral
    /\ \A t \in Themes : ObjectPool(t) = OwnObjects[t]
    /\ IsReviewCall /\ call.theme \in Themes =>
        /\ call.out.verb \in
              Range(verbs_positive) \cup Range(verbs_negative) \cup Range(verbs_neutral)
        /\ call.out.subj \in Range(subjects)
        /\ call.out.adj \in Range(adjectives)
        /\ call.out.context \in Range(contexts) \cup {<<>>}
        /\ call.out.obj \in Range(OwnObjects[call.theme])
        /\ \A t \in Themes \ {call.theme} : call.out.obj \notin Range(OwnObjects[t])

\* a Service sentence with a negative verb was generated
C9_Witness ==
    /\ IsReviewCall
    /\ call.theme = "Service"
    /\ call.out.verb \in Range(verbs_negative)
    /\ call.out.obj = objects_service[2]

C10_RerunIdempotent ==
    /\ [][pc = "L149" /\ event = "rerun" /\ HasBatch =>
            /\ ColumnNames(Batch) = AnalysedColumns
            /\ session_state' = session_state
            /\ ColumnNames(Batch)' = AnalysedColumns
            /\ df' = Batch]_vars
    /\ [](pc = "idle" /\ HasBatch => ColumnNames(Batch) = AnalysedColumns)

\* a rerun has analysed again a Batch with two different labels
C10_Witness ==
    /\ pc = "idle" /\ event = "rerun" /\ had_batch /\ HasBatch
    /\ ColumnNames(Batch) = AnalysedColumns
    /\ Column(Batch, "sentiment")[1] # Column(Batch, "sentiment")[LenFrame(Batch)]
    /\ metrics # None

====
